---- MODULE Spec2Model ----
(***************************************************************************)
(* Model of the SEO crawler of asa-asistan-api (src/crawler.py).           *)
(*                                                                         *)
(* A URL is a sequence of tokens: a scheme token ("https://", "mailto:"),  *)
(* host tokens, the delimiters "/", "?" and "#", and path/query/fragment   *)
(* words.  <<"https://", "a.com", "/", "x", "/">> is https://a.com/x/ .    *)
(* ";" is the delimiter of the params component of urlparse.               *)
(***************************************************************************)
EXTENDS Integers, Sequences, FiniteSets, TLC

VARIABLES pc, base_url, robots_url, allowed, robots_fetch,
          to_visit, visited, pages, result,
          fetches, enqueued, discovered

vars == <<pc, base_url, robots_url, allowed, robots_fetch,
          to_visit, visited, pages, result,
          fetches, enqueued, discovered>>

MAX_PAGES == 5

None == "None"

----------------------------------------------------------------------------
(* urllib.parse as used by the crawler *)

NetlocSchemes == {"http://", "https://", "ftp://"}
OpaqueSchemes == {"mailto:", "tel:"}

Last(s) == s[Len(s)]

\* index of the first token of s that is in D, 0 when there is none
FirstIn(s, D) ==
    IF \E i \in 1..Len(s) : s[i] \in D
    THEN CHOOSE i \in 1..Len(s) : s[i] \in D /\ \A j \in 1..(i-1) : s[j] \notin D
    ELSE 0

Before(s, D) == IF FirstIn(s, D) = 0 THEN s ELSE SubSeq(s, 1, FirstIn(s, D) - 1)
After(s, D)  == IF FirstIn(s, D) = 0 THEN <<>> ELSE SubSeq(s, FirstIn(s, D) + 1, Len(s))
From(s, D)   == IF FirstIn(s, D) = 0 THEN <<>> ELSE SubSeq(s, FirstIn(s, D), Len(s))

\* the schemes of urllib's uses_params that the model has ("" is no scheme)
ParamSchemes == NetlocSchemes \cup {"tel:", ""}

\* index of the last token of s that is x, 0 when there is none
LastIndex(s, x) ==
    IF \E i \in 1..Len(s) : s[i] = x
    THEN CHOOSE i \in 1..Len(s) : s[i] = x /\ \A j \in (i+1)..Len(s) : s[j] # x
    ELSE 0

\* urllib's _splitparams: the first ";" after the last "/" starts the params
ParamsAt(path) ==
    LET from == LastIndex(path, "/")
    IN  IF \E i \in (from+1)..Len(path) : path[i] = ";"
        THEN CHOOSE i \in (from+1)..Len(path) :
                path[i] = ";" /\ \A j \in (from+1)..(i-1) : path[j] # ";"
        ELSE 0

urlparse(url) ==
    LET hasScheme == url # <<>> /\ url[1] \in (NetlocSchemes \cup OpaqueSchemes)
        scheme    == IF hasScheme THEN url[1] ELSE ""
        rest      == IF hasScheme THEN Tail(url) ELSE url
        hasNetloc == hasScheme /\ url[1] \in NetlocSchemes
        nofrag    == Before(rest, {"#"})
        noquery   == Before(nofrag, {"?"})
        fullpath  == IF hasNetloc THEN From(noquery, {"/"}) ELSE noquery
        cut       == IF scheme \in ParamSchemes THEN ParamsAt(fullpath) ELSE 0
    IN  [scheme   |-> scheme,
         netloc   |-> IF hasNetloc THEN Before(noquery, {"/"}) ELSE <<>>,
         path     |-> IF cut = 0 THEN fullpath ELSE SubSeq(fullpath, 1, cut - 1),
         params   |-> IF cut = 0 THEN <<>> ELSE SubSeq(fullpath, cut + 1, Len(fullpath)),
         query    |-> After(nofrag, {"?"}),
         fragment |-> After(rest, {"#"})]

urlunparse(p) ==
    (IF p.scheme = "" THEN <<>> ELSE <<p.scheme>>)
      \o p.netloc \o p.path
      \o (IF p.params = <<>> THEN <<>> ELSE <<";">> \o p.params)
      \o (IF p.query = <<>> THEN <<>> ELSE <<"?">> \o p.query)
      \o (IF p.fragment = <<>> THEN <<>> ELSE <<"#">> \o p.fragment)

\* str.rstrip('/')
RECURSIVE rstrip(_)
rstrip(s) == IF s # <<>> /\ Last(s) = "/" THEN rstrip(SubSeq(s, 1, Len(s) - 1)) ELSE s

\* urljoin for the href shapes of the model: absolute, path-absolute ("/x")
\* and fragment-only ("#f"); the base never carries a query or a fragment
urljoin(base, href) ==
    IF href = <<>> THEN base
    ELSE IF href[1] \in (NetlocSchemes \cup OpaqueSchemes) THEN href
    ELSE IF href[1] = "/" THEN <<urlparse(base).scheme>> \o urlparse(base).netloc \o href
    ELSE Before(base, {"#"}) \o href

normalize_url(url) ==
    LET parsed == urlparse(url)
    IN  urlunparse([parsed EXCEPT
            !.path = IF rstrip(parsed.path) = <<>> THEN <<"/">> ELSE rstrip(parsed.path),
            !.fragment = <<>>])

----------------------------------------------------------------------------
(* check_robots: RobotFileParser.read() is handed the outcome of the       *)
(* robots.txt request.  read() lets URLError, timeouts and decode errors   *)
(* escape, swallows HTTPError (401/403 set disallow_all, other 4xx set     *)
(* allow_all, anything else sets nothing) and parses a fetched body, which *)
(* stamps last_checked.  `permits` is what the parsed directives say about *)
(* the URL for USER_AGENT.                                                 *)

RobotsRaising == {"URLError", "Timeout", "DecodeError"}

RobotsFetches ==
    {[kind |-> k, code |-> 0, permits |-> FALSE] : k \in RobotsRaising}
    \cup {[kind |-> "HTTPError", code |-> c, permits |-> FALSE] : c \in {401, 403, 404, 500}}
    \cup {[kind |-> "Fetched", code |-> 200, permits |-> b] : b \in BOOLEAN}

rp_read(fetch) ==
    [raised       |-> fetch.kind \in RobotsRaising,
     disallow_all |-> fetch.kind = "HTTPError" /\ fetch.code \in {401, 403},
     allow_all    |-> fetch.kind = "HTTPError" /\ fetch.code \notin {401, 403}
                        /\ fetch.code >= 400 /\ fetch.code < 500,
     last_checked |-> fetch.kind = "Fetched"]

can_fetch(rp, permits) ==
    IF rp.disallow_all THEN FALSE
    ELSE IF rp.allow_all THEN TRUE
    ELSE IF ~rp.last_checked THEN FALSE
    ELSE permits

check_robots(url, fetch) ==
    LET parsed == urlparse(url)
        r_url  == <<parsed.scheme>> \o parsed.netloc \o <<"/", "robots.txt">>
        rp     == rp_read(fetch)
    IN  IF rp.raised THEN <<TRUE, r_url>>
        ELSE <<can_fetch(rp, fetch.permits), r_url>>

----------------------------------------------------------------------------
(* get_internal_links over the href attributes of a page, in document order *)

skip_ext == {".jpg", ".jpeg", ".png", ".gif", ".pdf", ".zip", ".mp4", ".svg",
             ".webp", ".ico", ".xml", ".css", ".js"}

Contains(s, x) == \E i \in 1..Len(s) : s[i] = x

RECURSIVE collect_links(_, _, _)
collect_links(hrefs, base, links) ==
    IF hrefs = <<>> THEN links
    ELSE LET href     == Head(hrefs)
             full_url == urljoin(base, href)
             parsed   == urlparse(full_url)
             skip     == \/ href = <<>>
                         \/ href[1] \in {"#", "mailto:", "tel:"}
                         \/ parsed.netloc # urlparse(base).netloc
                         \/ parsed.scheme \notin {"http://", "https://"}
                         \/ (parsed.path # <<>> /\ Last(parsed.path) \in skip_ext)
             normalized == normalize_url(full_url)
         IN  collect_links(Tail(hrefs), base,
                 IF skip \/ Contains(links, normalized) THEN links
                 ELSE Append(links, normalized))

\* variant: the joined URL is kept as written, not normalized
RECURSIVE collect_links_raw(_, _, _)
collect_links_raw(hrefs, base, links) ==
    IF hrefs = <<>> THEN links
    ELSE LET href     == Head(hrefs)
             full_url == urljoin(base, href)
             parsed   == urlparse(full_url)
             skip     == \/ href = <<>>
                         \/ href[1] \in {"#", "mailto:", "tel:"}
                         \/ parsed.netloc # urlparse(base).netloc
                         \/ parsed.scheme \notin {"http://", "https://"}
                         \/ (parsed.path # <<>> /\ Last(parsed.path) \in skip_ext)
         IN  collect_links_raw(Tail(hrefs), base,
                 IF skip \/ Contains(links, full_url) THEN links
                 ELSE Append(links, full_url))

get_internal_links_raw(hrefs, base) == collect_links_raw(hrefs, base, <<>>)

get_internal_links(hrefs, base) == collect_links(hrefs, base, <<>>)

----------------------------------------------------------------------------
(* scrape_page: `response` is the outcome of session.get + raise_for_status; *)
(* a fetched document is given by what the parser finds in it.               *)

FetchErrors == {"Timeout", "ConnectionError", "HTTPError", "RequestException"}

error_text(kind) ==
    CASE kind = "Timeout"         -> "Zaman asimi"
      [] kind = "ConnectionError" -> "Baglanti hatasi"
      [] kind = "HTTPError"       -> "HTTP hatasi"
      [] OTHER                    -> "Istek hatasi"

default_page(url) ==
    [url |-> url, title |-> None, meta_description |-> None,
     h1_tags |-> <<>>, h2_tags |-> <<>>, h3_tags |-> <<>>,
     word_count |-> 0, has_mobile_friendly |-> FALSE,
     canonical |-> None, og_title |-> None,
     images_without_alt |-> 0, internal_links_count |-> 0]

\* dict update: d with key k set to v
Put(d, k, v) == [x \in DOMAIN d \cup {k} |-> IF x = k THEN v ELSE d[x]]
\* dict.pop(k): d without key k
Drop(d, k) == [x \in DOMAIN d \ {k} |-> d[x]]
\* dict.get(k, dflt)
Get(d, k, dflt) == IF k \in DOMAIN d THEN d[k] ELSE dflt

\* the part of scrape_page after a successful fetch
parse_page(url, doc) ==
    LET internal == SelectSeq(doc.hrefs,
                       LAMBDA h : urlparse(urljoin(url, h)).netloc = urlparse(url).netloc)
    IN  Put([default_page(url) EXCEPT
                !.title = doc.title,
                !.meta_description = doc.meta_description,
                !.og_title = doc.og_title,
                !.canonical = doc.canonical,
                !.h1_tags = doc.h1_tags,
                !.h2_tags = doc.h2_tags,
                !.h3_tags = doc.h3_tags,
                !.word_count = doc.word_count,
                !.has_mobile_friendly = doc.has_mobile_friendly,
                !.images_without_alt = doc.images_without_alt,
                !.internal_links_count = Len(internal)],
            "_internal_links", get_internal_links(doc.hrefs, url))

\* variant: a failed fetch reports its error in the title as well
scrape_page_titled(url, response) ==
    IF response.kind \in FetchErrors
    THEN Put([default_page(url) EXCEPT !.title = error_text(response.kind)],
             "error", error_text(response.kind))
    ELSE parse_page(url, response.doc)

scrape_page(url, response) ==
    IF response.kind \in FetchErrors
    THEN Put(default_page(url), "error", error_text(response.kind))
    ELSE parse_page(url, response.doc)

----------------------------------------------------------------------------
(* build_issues and build_summary.  An issue text f"{n} ..." is the pair   *)
(* <<n, wording>>.                                                         *)

TitleText  == "sayfada baslik (title) eksik"
MetaText   == "sayfada meta aciklama eksik"
MultiText  == "sayfada birden fazla H1 var (SEO hatasi)"
NoH1Text   == "sayfada H1 etiketi yok"
MobileText == "sayfa mobil uyumsuz"
AltText    == "gorselde alt etiketi eksik"
WordsText  == "Ortalama sayfa icerigi cok az"

Issue(level, n, wording, urls) == [level |-> level, text |-> <<n, wording>>, pages |-> urls]

\* variant: the two H1 rules in the other order
build_issues_swapped(missing_title, missing_meta, missing_h1, multiple_h1, non_mobile, images_no_alt, avg_words) ==
       (IF missing_title # <<>>
        THEN <<Issue("red", Len(missing_title), TitleText, missing_title)>> ELSE <<>>)
    \o (IF missing_meta # <<>>
        THEN <<Issue("red", Len(missing_meta), MetaText, missing_meta)>> ELSE <<>>)
    \o (IF missing_h1 # <<>>
        THEN <<Issue("orange", Len(missing_h1), NoH1Text, missing_h1)>> ELSE <<>>)
    \o (IF multiple_h1 # <<>>
        THEN <<Issue("orange", Len(multiple_h1), MultiText, multiple_h1)>> ELSE <<>>)
    \o (IF non_mobile # <<>>
        THEN <<Issue("red", Len(non_mobile), MobileText, non_mobile)>> ELSE <<>>)
    \o (IF images_no_alt > 0
        THEN <<Issue("orange", images_no_alt, AltText, <<>>)>> ELSE <<>>)
    \o (IF avg_words < 300
        THEN <<Issue("orange", avg_words, WordsText, <<>>)>> ELSE <<>>)

\* variant: the low-content threshold taken inclusive
build_issues_inclusive(missing_title, missing_meta, missing_h1, multiple_h1, non_mobile, images_no_alt, avg_words) ==
       (IF missing_title # <<>>
        THEN <<Issue("red", Len(missing_title), TitleText, missing_title)>> ELSE <<>>)
    \o (IF missing_meta # <<>>
        THEN <<Issue("red", Len(missing_meta), MetaText, missing_meta)>> ELSE <<>>)
    \o (IF multiple_h1 # <<>>
        THEN <<Issue("orange", Len(multiple_h1), MultiText, multiple_h1)>> ELSE <<>>)
    \o (IF missing_h1 # <<>>
        THEN <<Issue("orange", Len(missing_h1), NoH1Text, missing_h1)>> ELSE <<>>)
    \o (IF non_mobile # <<>>
        THEN <<Issue("red", Len(non_mobile), MobileText, non_mobile)>> ELSE <<>>)
    \o (IF images_no_alt > 0
        THEN <<Issue("orange", images_no_alt, AltText, <<>>)>> ELSE <<>>)
    \o (IF avg_words <= 300
        THEN <<Issue("orange", avg_words, WordsText, <<>>)>> ELSE <<>>)

build_issues(missing_title, missing_meta, missing_h1, multiple_h1, non_mobile, images_no_alt, avg_words) ==
       (IF missing_title # <<>>
        THEN <<Issue("red", Len(missing_title), TitleText, missing_title)>> ELSE <<>>)
    \o (IF missing_meta # <<>>
        THEN <<Issue("red", Len(missing_meta), MetaText, missing_meta)>> ELSE <<>>)
    \o (IF multiple_h1 # <<>>
        THEN <<Issue("orange", Len(multiple_h1), MultiText, multiple_h1)>> ELSE <<>>)
    \o (IF missing_h1 # <<>>
        THEN <<Issue("orange", Len(missing_h1), NoH1Text, missing_h1)>> ELSE <<>>)
    \o (IF non_mobile # <<>>
        THEN <<Issue("red", Len(non_mobile), MobileText, non_mobile)>> ELSE <<>>)
    \o (IF images_no_alt > 0
        THEN <<Issue("orange", images_no_alt, AltText, <<>>)>> ELSE <<>>)
    \o (IF avg_words < 300
        THEN <<Issue("orange", avg_words, WordsText, <<>>)>> ELSE <<>>)

\* Python truth value of a string-or-None field
Falsy(x) == x = None \/ x = ""

IsOk(p) == "error" \notin DOMAIN p

Urls(ps) == [i \in 1..Len(ps) |-> ps[i].url]

RECURSIVE SumWords(_)
SumWords(ps) == IF ps = <<>> THEN 0 ELSE Head(ps).word_count + SumWords(Tail(ps))

RECURSIVE SumImages(_)
SumImages(ps) == IF ps = <<>> THEN 0 ELSE Head(ps).images_without_alt + SumImages(Tail(ps))

\* round(): nearest integer, a tie going to the even one
RoundHalfEven(s, n) ==
    LET q == s \div n
        r == s % n
    IN  IF 2 * r < n THEN q
        ELSE IF 2 * r > n THEN q + 1
        ELSE IF q % 2 = 0 THEN q ELSE q + 1

\* variant: round() in place of int()
avg_word_count_round(ok_pages) ==
    IF ok_pages # <<>> THEN RoundHalfEven(SumWords(ok_pages), Len(ok_pages)) ELSE 0

\* int(sum(...) / len(ok_pages)) if ok_pages else 0 : int() truncates
avg_word_count(ok_pages) ==
    IF ok_pages # <<>> THEN SumWords(ok_pages) \div Len(ok_pages) ELSE 0

EmptyDict == <<>>

build_summary(pgs, base, r_url) ==
    IF pgs = <<>> THEN EmptyDict
    ELSE LET ok_pages      == SelectSeq(pgs, IsOk)
             missing_title == Urls(SelectSeq(ok_pages, LAMBDA p : Falsy(p.title)))
             missing_meta  == Urls(SelectSeq(ok_pages, LAMBDA p : Falsy(p.meta_description)))
             missing_h1    == Urls(SelectSeq(ok_pages, LAMBDA p : p.h1_tags = <<>>))
             multiple_h1   == Urls(SelectSeq(ok_pages, LAMBDA p : Len(p.h1_tags) > 1))
             non_mobile    == Urls(SelectSeq(ok_pages, LAMBDA p : ~p.has_mobile_friendly))
             total_images_no_alt == SumImages(ok_pages)
             avg           == avg_word_count(ok_pages)
         IN  [total_pages_crawled       |-> Len(pgs),
              successful_pages          |-> Len(ok_pages),
              error_pages               |-> Len(pgs) - Len(ok_pages),
              avg_word_count            |-> avg,
              total_images_without_alt  |-> total_images_no_alt,
              pages_missing_title       |-> missing_title,
              pages_missing_meta        |-> missing_meta,
              pages_missing_h1          |-> missing_h1,
              pages_with_multiple_h1    |-> multiple_h1,
              pages_not_mobile_friendly |-> non_mobile,
              issues |-> build_issues(missing_title, missing_meta, missing_h1, multiple_h1,
                                      non_mobile, total_images_no_alt, avg)]

----------------------------------------------------------------------------
(* scrape_seo *)

BlockedText == "robots.txt tarafindan engellendi: "

\* variant: the error names no URL
robots_blocked_result_bare(base, r_url) ==
    [url |-> base, robots_checked |-> TRUE, robots_url |-> r_url,
     error |-> <<BlockedText>>, pages |-> <<>>, summary |-> EmptyDict]

robots_blocked_result(base, r_url) ==
    [url |-> base, robots_checked |-> TRUE, robots_url |-> r_url,
     error |-> <<BlockedText>> \o r_url, pages |-> <<>>, summary |-> EmptyDict]

\* variant: off by one
loop_cond_inclusive(tv, pgs) == tv # <<>> /\ Len(pgs) <= MAX_PAGES

\* the while condition
loop_cond(tv, pgs) == tv # <<>> /\ Len(pgs) < MAX_PAGES

\* variant: to_visit.pop(), the latest-enqueued URL first
pop_next_lifo(tv) == [url |-> Last(tv), rest |-> SubSeq(tv, 1, Len(tv) - 1)]

\* to_visit.pop(0)
pop_next(tv) == [url |-> Head(tv), rest |-> Tail(tv)]

\* for link in internal_links: if link not in visited and link not in to_visit: append
RECURSIVE enqueue_links(_, _, _)
enqueue_links(tv, vis, links) ==
    IF links = <<>> THEN tv
    ELSE enqueue_links(
            IF Head(links) \notin vis /\ ~Contains(tv, Head(links))
            THEN Append(tv, Head(links)) ELSE tv,
            vis, Tail(links))

\* variant: the latest page
homepage_last(pgs) == pgs[Len(pgs)]

\* the page the top-level fields are copied from
homepage(pgs) == pgs[1]

crawl_result(base, r_url, pgs) ==
    [url |-> base, robots_checked |-> TRUE, robots_url |-> r_url,
     pages |-> pgs, summary |-> build_summary(pgs, base, r_url),
     title               |-> IF pgs # <<>> THEN Get(homepage(pgs), "title", None) ELSE None,
     meta_description    |-> IF pgs # <<>> THEN Get(homepage(pgs), "meta_description", None) ELSE None,
     h1_tags             |-> IF pgs # <<>> THEN Get(homepage(pgs), "h1_tags", <<>>) ELSE <<>>,
     h2_tags             |-> IF pgs # <<>> THEN Get(homepage(pgs), "h2_tags", <<>>) ELSE <<>>,
     word_count          |-> IF pgs # <<>> THEN Get(homepage(pgs), "word_count", 0) ELSE 0,
     has_mobile_friendly |-> IF pgs # <<>> THEN Get(homepage(pgs), "has_mobile_friendly", FALSE)
                             ELSE FALSE]

----------------------------------------------------------------------------
(* The inputs of a crawl: the URL given to scrape_seo, the outcome of the  *)
(* robots.txt request, and the response of the site to each page request.  *)

Site == <<"https://", "a.com">>
Root == Site \o <<"/">>
PageUrl(p) == Site \o <<"/", p>>

StartUrls == { <<"a.com">>,
               Root,
               <<"https://", "a.com", "/", "b", "/", "#", "f">> }

HrefsNone  == <<>>
HrefsBC    == << <<"/", "b">>, PageUrl("c") >>
HrefsD     == << <<"/", "d">> >>
\* the same pages in several spellings, and links back to the start page
HrefsForms == << <<"/", "b", "/">>, PageUrl("b") \o <<"#", "f">>, <<"/">>, Site,
                 <<"/", "c", "/", "/">>, <<"#", "top">> >>
HrefsMany  == << <<"/", "e">>, <<"/", "f">>, <<"/", "g">>, <<"/", "h">> >>
\* links get_internal_links drops, then one it keeps
HrefsSkip  == << <<"https://", "b.com", "/", "x">>, <<"/", "x", ".pdf">>, <<"mailto:", "m">>,
                 <<"ftp://", "a.com", "/", "z">>, <<>>, <<"/", "d", "/">> >>

\* one page with and without a trailing slash, its last segment ending in ";"
HrefsParams == << <<"/", "x", ";", "/">>, <<"/", "x", ";">> >>

HrefLists == {HrefsNone, HrefsBC, HrefsD, HrefsForms, HrefsMany, HrefsSkip, HrefsParams}

GoodContent ==
    [title |-> "T", meta_description |-> "M", og_title |-> "OG", canonical |-> None,
     h1_tags |-> <<"H">>, h2_tags |-> <<"S">>, h3_tags |-> <<>>,
     word_count |-> 300, has_mobile_friendly |-> TRUE, images_without_alt |-> 0]

PoorContent ==
    [title |-> None, meta_description |-> None, og_title |-> None, canonical |-> None,
     h1_tags |-> <<"H", "H">>, h2_tags |-> <<>>, h3_tags |-> <<>>,
     word_count |-> 250, has_mobile_friendly |-> FALSE, images_without_alt |-> 1]

Docs == {Put(GoodContent, "hrefs", h) : h \in HrefLists}
            \cup {Put(PoorContent, "hrefs", HrefsBC)}

Responses == {[kind |-> k] : k \in {"Timeout", "HTTPError"}}
                \cup {[kind |-> "ok", doc |-> d] : d \in Docs}

----------------------------------------------------------------------------
(* State machine of one scrape_seo call.  fetches counts the scrape_page   *)
(* calls, enqueued lists the URLs in the order they entered to_visit, and  *)
(* discovered keeps the _internal_links popped from each page record.      *)

NoFetch == [kind |-> "none", code |-> 0, permits |-> FALSE]

Init ==
    /\ pc = "start"
    /\ base_url = <<>>
    /\ robots_url = <<>>
    /\ allowed = FALSE
    /\ robots_fetch = NoFetch
    /\ to_visit = <<>>
    /\ visited = {}
    /\ pages = <<>>
    /\ result = EmptyDict
    /\ fetches = 0
    /\ enqueued = <<>>
    /\ discovered = <<>>

\* scrape_seo up to the loop: scheme default, normalize, robots check
scrape_seo_start(input, fetch) ==
    LET url   == IF input # <<>> /\ input[1] \in {"http://", "https://"}
                 THEN input ELSE <<"https://">> \o input
        base  == normalize_url(url)
        check == check_robots(base, fetch)
    IN  /\ pc = "start"
        /\ base_url' = base
        /\ allowed' = check[1]
        /\ robots_url' = check[2]
        /\ IF ~check[1]
           THEN /\ result' = robots_blocked_result(base, check[2])
                /\ pc' = "done"
                /\ UNCHANGED <<to_visit, enqueued>>
           ELSE /\ to_visit' = <<base>>
                /\ enqueued' = <<base>>
                /\ pc' = "crawling"
                /\ UNCHANGED result
        /\ UNCHANGED <<visited, pages, fetches, discovered>>

Start ==
    \E input \in StartUrls, fetch \in RobotsFetches :
        scrape_seo_start(input, fetch) /\ UNCHANGED robots_fetch

\* one iteration of the while loop
Visit ==
    /\ pc = "crawling"
    /\ loop_cond(to_visit, pages)
    /\ \E response \in Responses :
        LET current_url == pop_next(to_visit).url
            rest        == pop_next(to_visit).rest
        IN  IF current_url \in visited
            THEN /\ to_visit' = rest
                 /\ UNCHANGED <<visited, pages, fetches, enqueued, discovered>>
            ELSE LET page_data      == scrape_page(current_url, response)
                     internal_links == Get(page_data, "_internal_links", <<>>)
                     queue          == enqueue_links(rest, visited \cup {current_url},
                                                     internal_links)
                 IN  /\ visited' = visited \cup {current_url}
                     /\ fetches' = fetches + 1
                     /\ pages' = Append(pages, Drop(page_data, "_internal_links"))
                     /\ to_visit' = queue
                     /\ enqueued' = enqueued \o SubSeq(queue, Len(rest) + 1, Len(queue))
                     /\ discovered' = Append(discovered, internal_links)
    /\ UNCHANGED <<pc, base_url, robots_url, allowed, robots_fetch, result>>

\* after the loop: summary and result
Finalize ==
    /\ pc = "crawling"
    /\ ~loop_cond(to_visit, pages)
    /\ result' = crawl_result(base_url, robots_url, pages)
    /\ pc' = "done"
    /\ UNCHANGED <<base_url, robots_url, allowed, robots_fetch, to_visit, visited, pages,
                   fetches, enqueued, discovered>>

Next == Start \/ Visit \/ Finalize

Spec == Init /\ [][Next]_vars

----------------------------------------------------------------------------
(* The robots check on its own: the start of scrape_seo over more URLs,    *)
(* keeping the outcome of the robots.txt request in robots_fetch.          *)

RobotsInputs ==
    {<<s, h>> \o p : s \in {"http://", "https://"}, h \in {"a.com", "b.com", "www.a.com"},
                     p \in {<<>>, <<"/", "x", "/">>, <<"/", "y", "?", "q">>}}
    \cup {<<"a.com">>, <<"b.com", "/", "x">>}

CheckRobots ==
    \E input \in RobotsInputs, fetch \in RobotsFetches :
        scrape_seo_start(input, fetch) /\ robots_fetch' = fetch

SpecRobots == Init /\ [][CheckRobots]_vars

----------------------------------------------------------------------------
(* build_summary on its own, over sequences of page records: pages of 300  *)
(* words with up to two things wrong, the other word counts on a clean     *)
(* page, a page with everything wrong, and failed pages; the record at     *)
(* position i carries the URL of page i.                                   *)

MaxSummaryPages == 2

\* the number of things wrong with a page
Defects(f) ==
    (IF Falsy(f.title) THEN 1 ELSE 0) + (IF Falsy(f.meta_description) THEN 1 ELSE 0)
    + (IF Len(f.h1_tags) # 1 THEN 1 ELSE 0) + (IF f.has_mobile_friendly THEN 0 ELSE 1)
    + f.images_without_alt

Findings ==
    {f \in [title : {None, "T"}, meta_description : {None, "M"},
            h1_tags : {<<>>, <<"H">>, <<"H", "H">>}, has_mobile_friendly : BOOLEAN,
            images_without_alt : {0, 1}, word_count : {300}, error : {None}] :
        Defects(f) <= 2}
    \cup
    {[title |-> "T", meta_description |-> "M", h1_tags |-> <<"H">>, has_mobile_friendly |-> TRUE,
      images_without_alt |-> 0, word_count |-> w, error |-> None] : w \in {0, 250, 299, 301}}
    \cup
    {[title |-> "", meta_description |-> "M", h1_tags |-> <<"H">>, has_mobile_friendly |-> TRUE,
      images_without_alt |-> 0, word_count |-> 350, error |-> None]}
    \cup
    {[title |-> None, meta_description |-> None, h1_tags |-> <<>>, has_mobile_friendly |-> FALSE,
      images_without_alt |-> 1, word_count |-> 0, error |-> None]}
    \cup
    {[title |-> None, meta_description |-> None, h1_tags |-> <<>>, has_mobile_friendly |-> FALSE,
      images_without_alt |-> 0, word_count |-> 0, error |-> e] :
        e \in {"ConnectionError", "RequestException"}}

SummaryUrls == <<Root, PageUrl("b"), PageUrl("c"), PageUrl("d"), PageUrl("e")>>

PageOf(url, f) ==
    IF f.error # None
    THEN scrape_page(url, [kind |-> f.error])
    ELSE [default_page(url) EXCEPT
            !.title = f.title, !.meta_description = f.meta_description,
            !.h1_tags = f.h1_tags, !.has_mobile_friendly = f.has_mobile_friendly,
            !.images_without_alt = f.images_without_alt, !.word_count = f.word_count]

SummaryInputs ==
    UNION {{[i \in 1..n |-> PageOf(SummaryUrls[i], fs[i])] : fs \in [1..n -> Findings]} :
              n \in 0..MaxSummaryPages}

InitSummary ==
    /\ pc = "summary"
    /\ pages \in SummaryInputs
    /\ base_url = Root
    /\ robots_url = Site \o <<"/", "robots.txt">>
    /\ allowed = TRUE
    /\ robots_fetch = NoFetch
    /\ to_visit = <<>>
    /\ visited = {}
    /\ result = EmptyDict
    /\ fetches = 0
    /\ enqueued = <<>>
    /\ discovered = <<>>

Summarize ==
    /\ pc = "summary"
    /\ result' = [summary |-> build_summary(pages, base_url, robots_url)]
    /\ pc' = "summarized"
    /\ UNCHANGED <<base_url, robots_url, allowed, robots_fetch, to_visit, visited, pages,
                   fetches, enqueued, discovered>>

SpecSummary == InitSummary /\ [][Summarize]_vars

----------------------------------------------------------------------------
(* normalize_url on its own, over absolute URLs: a scheme, the host and up *)
(* to MaxUrlLen further tokens.  result keeps the URL and what             *)
(* normalize_url makes of it, of its own output, of the URL with "/"       *)
(* appended and of the URL with "#f" appended.                             *)

MaxUrlLen == 4

UrlTokens == {"/", "x", ";", "?", "#"}

NormalizeInputs ==
    {<<s, "a.com">> \o r : s \in {"http://", "https://"},
                           r \in UNION {[1..n -> UrlTokens] : n \in 0..MaxUrlLen}}

Normalize ==
    /\ pc = "start"
    /\ \E url \in NormalizeInputs :
          result' = [url   |-> url,
                     once  |-> normalize_url(url),
                     twice |-> normalize_url(normalize_url(url)),
                     slash |-> normalize_url(url \o <<"/">>),
                     frag  |-> normalize_url(url \o <<"#", "f">>)]
    /\ pc' = "normalized"
    /\ UNCHANGED <<base_url, robots_url, allowed, robots_fetch, to_visit, visited, pages,
                   fetches, enqueued, discovered>>

SpecNormalize == Init /\ [][Normalize]_vars

----------------------------------------------------------------------------
(* Properties of the crawl (Spec) *)

Indices(s) == 1..Len(s)
Finished == pc = "done" /\ allowed

\* C1: at every point of the loop and in the returned result there are at
\* most MAX_PAGES page records, and at most MAX_PAGES scrape_page calls were
\* made, whatever is left in the frontier.
C1_PageCap ==
    /\ Len(pages) <= MAX_PAGES
    /\ fetches <= MAX_PAGES
    /\ Finished => Len(result.pages) <= MAX_PAGES

\* a crawl that stopped at the cap with URLs still queued
C1_CapReached ==
    /\ Finished
    /\ Len(result.pages) = MAX_PAGES
    /\ fetches = MAX_PAGES
    /\ Len(to_visit) >= 2

\* C2: no canonical URL is fetched twice: the url fields of the page records
\* are pairwise distinct, also after normalization.
C2_NoDuplicateVisit ==
    \A i, j \in Indices(pages) :
        i # j => /\ pages[i].url # pages[j].url
                 /\ normalize_url(pages[i].url) # normalize_url(pages[j].url)

\* the start page linked /b/, /b#f, / and the bare host; a later page linked
\* /b again; /b and the start page were each fetched once
C2_SameViaSeveral ==
    /\ Finished
    /\ base_url = Root
    /\ Len(pages) >= 3
    /\ discovered[1] = <<PageUrl("b"), Root, PageUrl("c")>>
    /\ \E i \in 2..Len(discovered) : Contains(discovered[i], PageUrl("b"))
    /\ Cardinality({i \in Indices(pages) : pages[i].url = PageUrl("b")}) = 1
    /\ Cardinality({i \in Indices(pages) : pages[i].url = Root}) = 1

\* C3: pages are visited in the order their URLs were first enqueued: the
\* visited URLs followed by the frontier are the enqueue order; a start page
\* (other than b, c and d) linking b then c, with b linking d, gives start,
\* b, c, d.
C3_FifoOrder ==
    /\ pc \in {"crawling", "done"} /\ allowed => enqueued = Urls(pages) \o to_visit
    /\ (/\ Len(pages) >= 4
        /\ base_url = Root
        /\ discovered[1] = <<PageUrl("b"), PageUrl("c")>>
        /\ discovered[2] = <<PageUrl("d")>>)
       => SubSeq(Urls(pages), 1, 4) = <<Root, PageUrl("b"), PageUrl("c"), PageUrl("d")>>

\* the crawl of the example, finished
C3_Example ==
    /\ Finished
    /\ discovered[1] = <<PageUrl("b"), PageUrl("c")>>
    /\ discovered[2] = <<PageUrl("d")>>
    /\ Urls(result.pages) = <<Root, PageUrl("b"), PageUrl("c"), PageUrl("d")>>

\* C4: when the robots check disallows the start URL, the result has no
\* pages, an empty summary and an error that carries the robots URL, and no
\* page was fetched.
C4_RobotsBlocked ==
    (pc # "start" /\ ~allowed) =>
        /\ pc = "done"
        /\ result.pages = <<>>
        /\ result.summary = EmptyDict
        /\ "error" \in DOMAIN result
        /\ \E i \in 1..(Len(result.error) - Len(robots_url) + 1) :
              SubSeq(result.error, i, i + Len(robots_url) - 1) = robots_url
        /\ robots_url = <<urlparse(base_url).scheme>> \o urlparse(base_url).netloc
                            \o <<"/", "robots.txt">>
        /\ fetches = 0
        /\ pages = <<>>
        /\ visited = {}

C4_Blocked == pc = "done" /\ ~allowed /\ base_url = PageUrl("b")

\* C6: every scrape_page call leaves exactly one record; a failed one has its
\* error and every content field at its default, came with no links, is
\* marked visited and never queued again, and the crawl ends only on an
\* empty frontier or a full page list.
C6_FailedPage ==
    /\ Len(pages) = fetches
    /\ Len(discovered) = fetches
    /\ \A i \in Indices(pages) :
          ~IsOk(pages[i]) =>
             /\ pages[i] = Put(default_page(pages[i].url), "error", pages[i].error)
             /\ pages[i].error \in {error_text(k) : k \in FetchErrors}
             /\ discovered[i] = <<>>
             /\ pages[i].url \in visited
             /\ ~Contains(to_visit, pages[i].url)
             /\ \A j \in Indices(pages) : j # i => pages[j].url # pages[i].url
    /\ Finished => /\ result.pages = pages
                   /\ to_visit = <<>> \/ Len(pages) = MAX_PAGES

\* a failed page in the middle of a crawl that went on to fill the page list
C6_FailedThenMore ==
    /\ Finished
    /\ Len(result.pages) = MAX_PAGES
    /\ ~IsOk(result.pages[2])
    /\ IsOk(result.pages[3])
    /\ ~IsOk(result.pages[MAX_PAGES])

\* C10: in the result of a crawl that robots did not stop, the homepage
\* fields are those of the first page record without an error, when there
\* is one.
C10_Homepage ==
    (Finished /\ \E i \in Indices(result.pages) : IsOk(result.pages[i])) =>
        LET first == CHOOSE i \in Indices(result.pages) :
                        /\ IsOk(result.pages[i])
                        /\ \A j \in 1..(i-1) : ~IsOk(result.pages[j])
            p == result.pages[first]
        IN  /\ result.title = p.title
            /\ result.meta_description = p.meta_description
            /\ result.h1_tags = p.h1_tags
            /\ result.h2_tags = p.h2_tags
            /\ result.word_count = p.word_count
            /\ result.has_mobile_friendly = p.has_mobile_friendly

\* a result with failed and successful pages of different content
C10_Mixed ==
    /\ Finished
    /\ \E i \in Indices(result.pages) : ~IsOk(result.pages[i])
    /\ \E i \in Indices(result.pages) :
          IsOk(result.pages[i]) /\ result.pages[i].title # result.title
    /\ result.title = "T"

----------------------------------------------------------------------------
(* Properties of the robots check (SpecRobots) *)

\* C5: check_robots fails open: when robots.txt could not be fetched and
\* parsed, allowed is true, the robots URL is scheme://host/robots.txt and
\* the crawl starts; allowed is false only for a robots.txt that was fetched
\* and parsed and whose directives disallow the URL.
C5_FailOpen ==
    pc # "start" =>
        /\ robots_url = <<urlparse(base_url).scheme>> \o urlparse(base_url).netloc
                            \o <<"/", "robots.txt">>
        /\ robots_fetch.kind # "Fetched" => allowed /\ pc = "crawling"
        /\ ~allowed => robots_fetch.kind = "Fetched" /\ ~robots_fetch.permits

----------------------------------------------------------------------------
(* Properties of the summary (SpecSummary) *)

Summarized == pc = "summarized" /\ pages # <<>>

OkPages == SelectSeq(pages, IsOk)

Kinds(issues) == [i \in Indices(issues) |-> issues[i].text[2]]

Pos(order, kind) == CHOOSE i \in Indices(order) : order[i] = kind

\* the list an issue of this kind carries
AffectedPages(summary, kind) ==
    CASE kind = TitleText  -> summary.pages_missing_title
      [] kind = MetaText   -> summary.pages_missing_meta
      [] kind = MultiText  -> summary.pages_with_multiple_h1
      [] kind = NoH1Text   -> summary.pages_missing_h1
      [] kind = MobileText -> summary.pages_not_mobile_friendly
      [] OTHER             -> <<>>

\* the issues are of the kinds of `order`, in that relative order, each with
\* the level `level` gives its kind and with its page list
FollowsRules(summary, order, level) ==
    LET issues == summary.issues
    IN  /\ \A i \in Indices(issues) :
              /\ Contains(order, issues[i].text[2])
              /\ issues[i].level = level[Pos(order, issues[i].text[2])]
              /\ issues[i].pages = AffectedPages(summary, issues[i].text[2])
        /\ \A i, j \in Indices(issues) :
              i < j => Pos(order, issues[i].text[2]) < Pos(order, issues[j].text[2])

SpecOrder  == <<MultiText, AltText, TitleText, MetaText, NoH1Text, MobileText, WordsText>>
SpecLevels == <<"orange", "orange", "red", "orange", "orange", "red", "orange">>

CodeOrder  == <<TitleText, MetaText, MultiText, NoH1Text, MobileText, AltText, WordsText>>
CodeLevels == <<"red", "red", "orange", "orange", "red", "orange", "orange">>

\* C7 as stated: the issues come in the order multiple H1 (orange), missing
\* alt (orange, no pages), missing title (red), missing meta description
\* (orange), missing H1 (orange), not mobile-friendly (red), low word count
\* (orange, no pages).
C7_SpecOrder == Summarized => FollowsRules(result.summary, SpecOrder, SpecLevels)

\* C7 amended: the issues come in the order missing title (red), missing
\* meta description (red), multiple H1 (orange), missing H1 (orange), not
\* mobile-friendly (red), missing alt (orange, no pages), low word count
\* (orange, no pages).
C7_CodeOrder == Summarized => FollowsRules(result.summary, CodeOrder, CodeLevels)

\* two pages that raise all seven issues
C7_AllSeven == Summarized /\ Len(result.summary.issues) = 7

\* C8 as stated: avg_word_count is the mean word count of the successful
\* pages rounded to the nearest integer (599 over 2 gives 300), 0 without a
\* successful page.
C8_Rounded ==
    Summarized =>
        result.summary.avg_word_count =
            IF OkPages = <<>> THEN 0 ELSE RoundHalfEven(SumWords(OkPages), Len(OkPages))

\* C8 amended: avg_word_count is the mean word count of the successful pages
\* rounded down (599 over 2 gives 299), 0 without a successful page.
C8_Truncated ==
    Summarized =>
        LET avg == result.summary.avg_word_count
            n   == Len(OkPages)
            sum == SumWords(OkPages)
        IN  IF n = 0 THEN avg = 0
            ELSE avg * n <= sum /\ sum < (avg + 1) * n

\* 299 and 300 words on two successful pages
C8_HalfAverage ==
    /\ Summarized
    /\ Len(pages) = 2 /\ Len(OkPages) = 2
    /\ SumWords(OkPages) = 599
    /\ result.summary.avg_word_count = 299

Trigger(kind) ==
    CASE kind = TitleText  -> \E i \in Indices(pages) : IsOk(pages[i]) /\ Falsy(pages[i].title)
      [] kind = MetaText   -> \E i \in Indices(pages) :
                                 IsOk(pages[i]) /\ Falsy(pages[i].meta_description)
      [] kind = MultiText  -> \E i \in Indices(pages) :
                                 IsOk(pages[i]) /\ Len(pages[i].h1_tags) > 1
      [] kind = NoH1Text   -> \E i \in Indices(pages) :
                                 IsOk(pages[i]) /\ pages[i].h1_tags = <<>>
      [] kind = MobileText -> \E i \in Indices(pages) :
                                 IsOk(pages[i]) /\ ~pages[i].has_mobile_friendly
      [] kind = AltText    -> \E i \in Indices(pages) :
                                 IsOk(pages[i]) /\ pages[i].images_without_alt > 0
      [] OTHER             -> result.summary.avg_word_count < 300

\* C9: each of the seven issues is in summary.issues, once, exactly when its
\* trigger holds over the successful pages; the low-content trigger is
\* avg_word_count < 300, so 250 raises it and 300 does not; without a
\* trigger the list is empty.
C9_IssueIffTrigger ==
    Summarized =>
        LET issues == result.summary.issues
        IN  /\ \A i \in Indices(CodeOrder) :
                  Contains(Kinds(issues), CodeOrder[i]) <=> Trigger(CodeOrder[i])
            /\ \A i, j \in Indices(issues) : i # j => issues[i].text[2] # issues[j].text[2]
            /\ \A i \in Indices(issues) : Contains(CodeOrder, issues[i].text[2])

\* one page with two H1 and one image without alt, nothing else wrong
C9_TwoH1OneAlt ==
    /\ Summarized
    /\ Len(pages) = 1
    /\ pages[1].h1_tags = <<"H", "H">>
    /\ pages[1].images_without_alt = 1
    /\ Kinds(result.summary.issues) = <<MultiText, AltText>>

----------------------------------------------------------------------------
(* Properties of normalize_url (SpecNormalize) *)

\* a URL of scheme, host and path only
PathOnly(url) == ~Contains(url, "?") /\ ~Contains(url, "#")

\* C11: normalize_url is idempotent, and a URL of scheme, host and path
\* normalizes to the same string with a "/" appended and with a "#fragment"
\* appended; the root path normalizes to "/".
C11_Normalize ==
    pc = "normalized" =>
        /\ result.twice = result.once
        /\ PathOnly(result.url) =>
              /\ result.slash = result.once
              /\ result.frag = result.once
              /\ rstrip(SubSeq(result.url, 3, Len(result.url))) = <<>>
                    => result.once = SubSeq(result.url, 1, 2) \o <<"/">>

====
